---- MODULE Spec2Model ----
(***************************************************************************)
(* pivorm: a small ORM over sqlite3 (src/pivorm.py).                       *)
(*                                                                         *)
(* Text (SQL, Python str) is a sequence of pieces; a piece is a TLA+       *)
(* string.  Identifiers and keywords are one piece each, the characters of *)
(* a Python str value are one piece each, so that quoting, joining and     *)
(* SQL lexing work on the text itself.                                     *)
(***************************************************************************)
EXTENDS Integers, Sequences, FiniteSets, TLC

VARIABLES
    heap,       \* the Expression and Value objects alive, by object id
    visitor,    \* the last SqlVisitor used: which root it visited and its sql
    instances,  \* MetaSingleton._instances: class name -> object id
    dbs,        \* the SqliteDatabase objects, by object id
    handles,    \* the object ids that SqliteDatabase() calls have returned
    files,      \* the database files: path -> table name -> rows
    classes,    \* per declared model: cls.db and cls.objects
    cursors,    \* the Select objects the program holds, by object id
    decl,       \* the body of class Model(Table), once the program declares it
    ret         \* the last call: operation, receiver and outcome

vars == <<heap, visitor, instances, dbs, handles, files, classes, cursors, decl, ret>>

(***************************************************************************)
(* Bounds of the model.                                                    *)
(***************************************************************************)
MaxNodes == 5       \* Expression and Value objects alive at once
MaxQuote == 2       \* times one str Value is wrapped in quotes
MaxRows == 3        \* rows stored in a database file, all tables together
MaxCursors == 1     \* Select objects held besides each model's objects
MaxDbs == 2         \* SqliteDatabase objects ever constructed

(***************************************************************************)
(* Python values.                                                          *)
(***************************************************************************)
NoField == [model |-> "", name |-> ""]

PyInt(n) == [t |-> "int", n |-> n, s |-> <<>>, f |-> NoField]
PyStr(s) == [t |-> "str", n |-> 0, s |-> s, f |-> NoField]
PyNone == [t |-> "none", n |-> 0, s |-> <<>>, f |-> NoField]
PyField(f) == [t |-> "field", n |-> 0, s |-> <<>>, f |-> f]

\* BaseField.__repr__: f"{self.model.__name__}.{self.name}"
FieldRepr(f) == <<f.model, ".", f.name>>

\* str(value)
Str(v) ==
    CASE v.t = "int" -> <<ToString(v.n)>>
      [] v.t = "str" -> v.s
      [] v.t = "none" -> <<"None">>
      [] v.t = "field" -> FieldRepr(v.f)

\* f'\'{value}\''
Quote(s) == <<"'">> \o s \o <<"'">>

\* sep.join(items)
RECURSIVE Join(_, _)
Join(sep, items) ==
    IF items = <<>> THEN <<>>
    ELSE IF Len(items) = 1 THEN Head(items)
    ELSE Head(items) \o sep \o Join(sep, Tail(items))

(***************************************************************************)
(* Expression trees: Node, BaseField, Expression, Value.                   *)
(* A reference is either a field (a class attribute, never mutated by a    *)
(* visitor) or an object of the heap.                                      *)
(***************************************************************************)
FieldRef(f) == [k |-> "field", id |-> 0, f |-> f]
ObjRef(i) == [k |-> "obj", id |-> i, f |-> NoField]
NoRef == [k |-> "none", id |-> 0, f |-> NoField]

\* what a caller passes as rhs: a Node reference or a plain Python value
ArgRef(r) == [k |-> r.k, id |-> r.id, f |-> r.f, v |-> PyNone]
ArgLit(v) == [k |-> "lit", id |-> 0, f |-> NoField, v |-> v]

ExpressionObj(lhs, op, rhs) ==
    [cls |-> "Expression", lhs |-> lhs, op |-> op, rhs |-> rhs, val |-> PyNone]

\* Value.__init__
ValueObj(value) ==
    [cls |-> "Value", lhs |-> NoRef, op |-> "", rhs |-> NoRef, val |-> value]

IsExpression(h, a) == a.k = "obj" /\ h[a.id].cls = "Expression"

\* Expression.__init__: the heap with the new Expression at Len(h) + 1
Expression(h, lhs, op, rhs) ==
    IF IsExpression(h, rhs)
    THEN Append(h, ExpressionObj(lhs, op, ObjRef(rhs.id)))
    ELSE h \o << ExpressionObj(lhs, op, ObjRef(Len(h) + 2)),
                 ValueObj(IF rhs.k = "lit" THEN rhs.v ELSE PyField(rhs.f)) >>

\* The operator tokens of Node.__and__ ... Node.like
OpAnd == " AND "
OpOr == " OR "
OpEq == " = "
OpNe == " != "
OpLt == " < "
OpGt == " > "
OpLe == " <= "
OpGe == " >= "
OpIn == " IN "
OpLike == " LIKE "

\* Node.__and__, __or__, __eq__, __ne__, __lt__, __gt__, __le__, __ge__, like
BinaryOps == {OpAnd, OpOr, OpEq, OpNe, OpLt, OpGt, OpLe, OpGe, OpLike}

\* Node.in_: rhs = ', '.join(rhs); rhs = f'({rhs})'
InRhs(items) == PyStr(<<"(">> \o Join(<<", ">>, items) \o <<")">>)

\* Node.in_
In_(h, self, items) == Expression(h, self, OpIn, ArgLit(InRhs(items)))

(***************************************************************************)
(* SqlVisitor.  A visit returns the heap (visit_value assigns element.val) *)
(* and the visitor's sql.                                                  *)
(***************************************************************************)
\* SqlVisitor.visit_field
VisitField(st, f) == [heap |-> st.heap, sql |-> st.sql \o FieldRepr(f)]

\* SqlVisitor.visit_value
VisitValue(st, i) ==
    LET v == st.heap[i].val
        w == IF v.t = "str" THEN PyStr(Quote(v.s)) ELSE v
    IN  [heap |-> [st.heap EXCEPT ![i].val = w], sql |-> st.sql \o Str(w)]

\* Node.visit (dispatch) and SqlVisitor.visit_expr
RECURSIVE Visit(_, _)
Visit(st, r) ==
    IF r.k = "field" THEN VisitField(st, r.f)
    ELSE IF st.heap[r.id].cls = "Value" THEN VisitValue(st, r.id)
    ELSE LET e == st.heap[r.id]
             s1 == [heap |-> st.heap, sql |-> st.sql \o <<"(">>]
             s2 == Visit(s1, e.lhs)
             s3 == [heap |-> s2.heap, sql |-> s2.sql \o <<e.op>>]
             s4 == Visit(s3, e.rhs)
         IN  [heap |-> s4.heap, sql |-> s4.sql \o <<")">>]

\* SqlVisitor.__init__ followed by root.visit(visitor)
Render(h, r) == Visit([heap |-> h, sql |-> <<>>], r)

(***************************************************************************)
(* Declared fields used to build expressions.                              *)
(***************************************************************************)
Field(m, n) == [model |-> m, name |-> n]

ExprIds(h) == {i \in 1..Len(h) : h[i].cls = "Expression"}

\* str Values that the visit of r reaches
RECURSIVE StrLeaves(_, _)
StrLeaves(h, r) ==
    IF r.k # "obj" THEN {}
    ELSE IF h[r.id].cls = "Value"
         THEN (IF h[r.id].val.t = "str" THEN {r.id} ELSE {})
    ELSE StrLeaves(h, h[r.id].lhs) \cup StrLeaves(h, h[r.id].rhs)

\* Leading quote characters of a text
RECURSIVE Quotes(_)
Quotes(s) == IF s # <<>> /\ Head(s) = "'" THEN 1 + Quotes(Tail(s)) ELSE 0

(***************************************************************************)
(* Declared models.  Parent and Child are the classes at the end of        *)
(* src/pivorm.py; Toy is a further declaration whose foreign key, named    *)
(* owner, references Child, so that Toy -> Child -> Parent.                *)
(***************************************************************************)
ModelNames == {"Parent", "Child", "Toy"}

\* BaseField.__init__(unique=False, null=False, default=None); type is the
\* class attribute of the field class
BaseField(name, type, unique, null, default) ==
    [name |-> name, kind |-> "field", type |-> type, unique |-> unique,
     null |-> null, default |-> default, table |-> ""]
IntegerField(name, unique, null, default) ==
    BaseField(name, "INTEGER", unique, null, default)
TextField(name, unique, null, default) == BaseField(name, "TEXT", unique, null, default)
RealField(name, unique, null, default) == BaseField(name, "REAL", unique, null, default)

\* ForeignKey.__init__
ForeignKey(name, table) ==
    [name |-> name, kind |-> "fk", type |-> "", unique |-> FALSE,
     null |-> FALSE, default |-> PyNone, table |-> table]

\* The class bodies, in declaration order
ClassBody(m) ==
    CASE m = "Parent" -> << TextField("name", FALSE, FALSE, PyNone),
                            IntegerField("age", FALSE, TRUE, PyNone) >>
      [] m = "Child" -> << TextField("name", FALSE, FALSE, PyNone),
                           IntegerField("age", FALSE, TRUE, PyNone),
                           ForeignKey("parent", "Parent") >>
      [] m = "Toy" -> << TextField("name", FALSE, FALSE, PyNone),
                         ForeignKey("owner", "Child") >>

\* Table._get_name: cls.__name__.lower()
_get_name(m) ==
    CASE m = "Parent" -> "parent"
      [] m = "Child" -> "child"
      [] m = "Toy" -> "toy"
      [] m = "Model" -> "model"

\* The attribute names in use, in the order sorted() gives them
Alphabet == <<"age", "id", "name", "owner", "parent", "weight">>

\* inspect.getmembers over the attributes body: sorted by name
sorted(body) ==
    LET names == {body[k].name : k \in 1..Len(body)}
        Attr(n) == body[CHOOSE k \in 1..Len(body) : body[k].name = n]
        Rank(n) == CHOOSE k \in 1..Len(Alphabet) : Alphabet[k] = n
        order == [k \in 1..Cardinality(names) |->
                    CHOOSE n \in names :
                       Cardinality({x \in names : Rank(x) < Rank(n)}) = k - 1]
    IN  [k \in 1..Len(order) |-> Attr(order[k])]

\* Table.__init_subclass__ (cls.id = IntegerField()) and inspect.getmembers:
\* the class attributes sorted by name
getmembers(m) == sorted(ClassBody(m) \o << IntegerField("id", FALSE, FALSE, PyNone) >>)

\* The members of every declared class (fixed once the classes are declared)
ClassMembers == [m \in ModelNames |-> getmembers(m)]

Members(m) == ClassMembers[m]

\* getattr(cls, name)
GetAttr(m, name) ==
    LET ms == Members(m)
    IN  IF \E k \in 1..Len(ms) : ms[k].name = name
        THEN ms[CHOOSE k \in 1..Len(ms) : ms[k].name = name]
        ELSE [name |-> name, kind |-> "missing", type |-> "", unique |-> FALSE,
              null |-> FALSE, default |-> PyNone, table |-> ""]

\* Table._get_fields: one row per BaseField other than id, and one per
\* ForeignKey; field.type is the instance attribute BaseField.__init__ sets
NoneType == "None"

RECURSIVE FieldRows(_)
FieldRows(ms) ==
    IF ms = <<>> THEN <<>>
    ELSE LET a == Head(ms)
             row == IF a.kind = "field" /\ a.name # "id"
                    THEN << <<a.name, NoneType>>
                            \o (IF a.unique THEN <<"UNIQUE">> ELSE <<>>)
                            \o (IF ~a.null THEN <<"NOT NULL">> ELSE <<>>)
                            \o (IF a.default # PyNone
                                THEN <<"DEFAULT " \o Str(a.default)[1]>> ELSE <<>>) >>
                    ELSE IF a.kind = "fk"
                    THEN << <<a.name \o "_id", "INTEGER">> >>
                    ELSE <<>>
         IN  row \o FieldRows(Tail(ms))

_get_fields(m) == FieldRows(Members(m))

\* fields_name = ["id"]; for field in fields: fields_name.append(field[0])
FieldsName(m) ==
    LET fields == _get_fields(m)
    IN  <<"id">> \o [k \in 1..Len(fields) |-> fields[k][1]]

\* SQL_TEMPLATE["SELECT_ALL"].format(name=...)
SelectAll(name) == <<"SELECT ", name, ".* FROM ", name>>

\* Select.filter: one LEFT JOIN per ForeignKey member, named by the attribute
RECURSIVE Joins(_, _)
Joins(m, ms) ==
    IF ms = <<>> THEN <<>>
    ELSE (IF Head(ms).kind = "fk"
          THEN <<" LEFT JOIN ", Head(ms).name, " ON ", _get_name(m), ".",
                 Head(ms).name \o "_id", " = ", Head(ms).name, ".", "id">>
          ELSE <<>>) \o Joins(m, Tail(ms))

(***************************************************************************)
(* sqlite3, the storage collaborator: what cursor.execute(sql) does with   *)
(* the statements this program sends.  A database file holds tables; a row *)
(* is the sequence of its column values (Python int, str or None), id      *)
(* first.  Statements are lexed and evaluated from their text.             *)
(***************************************************************************)
MaxInt == 9         \* largest integer literal the lexer reads

\* The columns of the tables a database file holds: the layout of the
\* model's CREATE TABLE (id, then the rows of _get_fields)
TableColumns ==
    [t \in {_get_name(m) : m \in ModelNames} |->
        FieldsName(CHOOSE m \in ModelNames : _get_name(m) = t)]

Columns(t) == TableColumns[t]

ColumnOf(t, c) == CHOOSE k \in 1..Len(Columns(t)) : Columns(t)[k] = c

\* Identifiers are case-insensitive: Parent.name names parent.name
SqlTable(p) == IF p \in ModelNames THEN _get_name(p) ELSE p

Bad(err) == [ok |-> FALSE, err |-> err, v |-> PyNone, next |-> 0]
Good(v, next) == [ok |-> TRUE, err |-> "", v |-> v, next |-> next]

IsNumber(p) == \E n \in 0..MaxInt : ToString(n) = p
NumberOf(p) == CHOOSE n \in 0..MaxInt : ToString(n) = p

\* A string literal from the piece after its opening quote: '' inside is one
\* quote character, a single ' ends it
RECURSIVE ScanString(_, _, _)
ScanString(sql, i, acc) ==
    IF i > Len(sql) THEN Bad("unrecognized token")
    ELSE IF sql[i] = "'"
         THEN IF i + 1 <= Len(sql) /\ sql[i + 1] = "'"
              THEN ScanString(sql, i + 2, Append(acc, "'"))
              ELSE Good(PyStr(acc), i + 1)
    ELSE ScanString(sql, i + 1, Append(acc, sql[i]))

SqlBool(b) == PyInt(IF b THEN 1 ELSE 0)
Truth(v) == v.t = "int" /\ v.n # 0
Falsity(v) == v.t # "none" /\ ~Truth(v)

\* text LIKE pattern: % is any run of characters, _ any one character
RECURSIVE Like(_, _)
Like(s, pat) ==
    IF pat = <<>> THEN s = <<>>
    ELSE IF Head(pat) = "%"
         THEN Like(s, Tail(pat)) \/ (s # <<>> /\ Like(Tail(s), pat))
    ELSE /\ s # <<>>
         /\ Head(pat) = "_" \/ Head(pat) = Head(s)
         /\ Like(Tail(s), Tail(pat))

\* Storage classes order INTEGER before TEXT; texts compare equal or not
\* (the statements sent here order texts only against integers)
Less(a, b) ==
    \/ a.t = "int" /\ b.t = "int" /\ a.n < b.n
    \/ a.t = "int" /\ b.t = "str"

\* a <op> b on two values
Apply(op, a, b) ==
    IF op = OpAnd
    THEN (IF Falsity(a) \/ Falsity(b) THEN SqlBool(FALSE)
          ELSE IF a.t = "none" \/ b.t = "none" THEN PyNone
          ELSE SqlBool(TRUE))
    ELSE IF op = OpOr
    THEN (IF Truth(a) \/ Truth(b) THEN SqlBool(TRUE)
          ELSE IF a.t = "none" \/ b.t = "none" THEN PyNone
          ELSE SqlBool(FALSE))
    ELSE IF a.t = "none" \/ b.t = "none" THEN PyNone
    ELSE IF op = OpEq THEN SqlBool(a = b)
    ELSE IF op = OpNe THEN SqlBool(a # b)
    ELSE IF op = OpLt THEN SqlBool(Less(a, b))
    ELSE IF op = OpGt THEN SqlBool(Less(b, a))
    ELSE IF op = OpLe THEN SqlBool(~Less(b, a))
    ELSE IF op = OpGe THEN SqlBool(~Less(a, b))
    ELSE SqlBool(Like(Str(a), Str(b)))

\* The right operand b of ( a op b: the value of the parenthesized expression
EvalRhs(sql, op, a, b) ==
    IF ~b.ok THEN b
    ELSE IF op = OpIn THEN Bad("no such table")
    ELSE IF b.next > Len(sql) \/ sql[b.next] # ")" THEN Bad("syntax error")
    ELSE Good(Apply(op, a.v, b.v), b.next + 1)

\* The column t.c of the joined row env
EvalColumn(t, c, env, next) ==
    IF t \in DOMAIN env /\ \E k \in 1..Len(Columns(t)) : Columns(t)[k] = c
    THEN Good(env[t][ColumnOf(t, c)], next)
    ELSE Bad("no such column")

\* An expression at piece i, evaluated on env (table name -> its row of the
\* joined row): a parenthesized binary expression, a literal or a column
RECURSIVE Eval(_, _, _)

\* The operator after the left operand a of ( a op b
EvalOp(sql, env, a) ==
    IF ~a.ok THEN a
    ELSE IF a.next > Len(sql) \/ sql[a.next] \notin BinaryOps \cup {OpIn} THEN Bad("syntax error")
    ELSE EvalRhs(sql, sql[a.next], a, Eval(sql, a.next + 1, env))

Eval(sql, i, env) ==
    IF i > Len(sql) THEN Bad("incomplete input")
    ELSE IF sql[i] = "(" THEN EvalOp(sql, env, Eval(sql, i + 1, env))
    ELSE IF sql[i] = "'" THEN ScanString(sql, i + 1, <<>>)
    ELSE IF IsNumber(sql[i]) THEN Good(PyInt(NumberOf(sql[i])), i + 1)
    ELSE IF i + 2 <= Len(sql) /\ sql[i + 1] = "."
    THEN EvalColumn(SqlTable(sql[i]), sql[i + 2], env, i + 3)
    ELSE Bad("no such column")

\* e AND rest
ConjunctsAnd(e, rest) ==
    IF ~rest.ok THEN rest ELSE Good(Apply(OpAnd, e.v, rest.v), rest.next)

\* WHERE <expr> AND <expr> ... from piece i to the end of the statement
RECURSIVE Conjuncts(_, _, _)

\* What follows the conjunct e
ConjunctsFrom(sql, env, e) ==
    IF ~e.ok THEN e
    ELSE IF e.next > Len(sql) THEN e
    ELSE IF sql[e.next] # OpAnd THEN Bad("syntax error")
    ELSE ConjunctsAnd(e, Conjuncts(sql, e.next + 1, env))

Conjuncts(sql, i, env) == ConjunctsFrom(sql, env, Eval(sql, i, env))

Where(sql, i, env) ==
    IF i > Len(sql) THEN Good(SqlBool(TRUE), i)
    ELSE IF sql[i] # " WHERE " THEN Bad("syntax error")
    ELSE Conjuncts(sql, i + 1, env)

NullRow(t) == [k \in 1..Len(Columns(t)) |-> PyNone]

\* The LEFT JOIN clauses from piece i: [ok, err, joins, next]
RECURSIVE ParseJoins(_, _, _, _)
ParseJoins(tables, sql, i, acc) ==
    IF i > Len(sql) \/ sql[i] # " LEFT JOIN "
    THEN [ok |-> TRUE, err |-> "", joins |-> acc, next |-> i]
    ELSE IF i + 9 > Len(sql) \/ sql[i + 2] # " ON " \/ sql[i + 6] # OpEq
    THEN [ok |-> FALSE, err |-> "syntax error", joins |-> acc, next |-> i]
    ELSE IF sql[i + 1] \notin DOMAIN tables
    THEN [ok |-> FALSE, err |-> "no such table", joins |-> acc, next |-> i]
    ELSE ParseJoins(tables, sql, i + 10,
                    Append(acc, [table |-> sql[i + 1], on |-> SubSeq(sql, i + 3, i + 9)]))

\* The ON condition of a join, on a joined row
On(on, env) == Eval(<<"(">> \o on \o <<")">>, 1, env)

\* env with the row r of table t joined to it
With(env, t, r) == [x \in DOMAIN env \cup {t} |-> IF x = t THEN r ELSE env[x]]

\* The first of the rows at the indexes hit, or NULLs
FirstRow(t, rows, hit) ==
    IF hit = {} THEN NullRow(t) ELSE rows[CHOOSE k \in hit : \A l \in hit : k <= l]

\* One LEFT JOIN: the first row of the joined table that satisfies ON
JoinOne(rows, j, env) ==
    With(env, j.table,
         FirstRow(j.table, rows,
                  {k \in 1..Len(rows) : Truth(On(j.on, With(env, j.table, rows[k])).v)}))

\* The joined row of one row of the FROM table
RECURSIVE JoinRow(_, _, _)
JoinRow(tables, joins, env) ==
    IF joins = <<>> THEN env
    ELSE JoinRow(tables, Tail(joins), JoinOne(tables[Head(joins).table], Head(joins), env))

\* The rows at the indexes idx, in table order
RECURSIVE Pick(_, _, _)
Pick(rows, idx, k) ==
    IF k > Len(rows) THEN <<>>
    ELSE (IF k \in idx THEN <<rows[k]>> ELSE <<>>) \o Pick(rows, idx, k + 1)

NoRows == [ok |-> FALSE, err |-> "", rows |-> <<>>, tables |-> <<>>, lastrowid |-> 0]

Failed(err) == [NoRows EXCEPT !.err = err]

\* The joined row of a row of table t
Joined(tables, t, joins, row) == JoinRow(tables, joins, [x \in {t} |-> row])

\* Preparing the statement resolves the columns of ON and WHERE
Prepare(sql, js, env) ==
    IF \E k \in 1..Len(js.joins) : ~On(js.joins[k].on, env).ok
    THEN Bad("no such column")
    ELSE Where(sql, js.next, env)

\* The rows of t whose joined row satisfies WHERE
SelectRows(tables, sql, t, js, prepared) ==
    IF ~prepared.ok THEN Failed(prepared.err)
    ELSE [ok |-> TRUE, err |-> "",
          rows |-> Pick(tables[t],
                        {k \in 1..Len(tables[t]) :
                            Truth(Where(sql, js.next,
                                        Joined(tables, t, js.joins, tables[t][k])).v)},
                        1),
          tables |-> tables, lastrowid |-> 0]

SelectFrom(tables, sql, t, js) ==
    IF ~js.ok THEN Failed(js.err)
    ELSE SelectRows(tables, sql, t, js,
                    Prepare(sql, js, Joined(tables, t, js.joins, NullRow(t))))

\* SELECT t.* FROM t [LEFT JOIN ...]... [WHERE ...]
ExecSelect(tables, sql) ==
    IF Len(sql) < 4 \/ sql[3] # ".* FROM " THEN Failed("syntax error")
    ELSE IF sql[4] \notin DOMAIN tables \/ sql[2] # sql[4] THEN Failed("no such table")
    ELSE SelectFrom(tables, sql, sql[4], ParseJoins(tables, sql, 5, <<>>))

\* The column names up to ") VALUES (": [ok, names, next]
RECURSIVE ParseNames(_, _, _)
ParseNames(sql, i, acc) ==
    IF i + 1 > Len(sql) THEN [ok |-> FALSE, names |-> acc, next |-> i]
    ELSE IF sql[i + 1] = ") VALUES ("
    THEN [ok |-> TRUE, names |-> Append(acc, sql[i]), next |-> i + 2]
    ELSE IF sql[i + 1] = ", " THEN ParseNames(sql, i + 2, Append(acc, sql[i]))
    ELSE [ok |-> FALSE, names |-> acc, next |-> i]

\* The value expressions up to ")": [ok, err, values]
RECURSIVE ParseValues(_, _, _)

\* What follows the value v
ParseValuesFrom(sql, acc, v) ==
    IF ~v.ok THEN [ok |-> FALSE, err |-> v.err, values |-> acc]
    ELSE IF v.next > Len(sql)
    THEN [ok |-> FALSE, err |-> "incomplete input", values |-> acc]
    ELSE IF sql[v.next] = ")" /\ v.next = Len(sql)
    THEN [ok |-> TRUE, err |-> "", values |-> Append(acc, v.v)]
    ELSE IF sql[v.next] = ", " THEN ParseValues(sql, v.next + 1, Append(acc, v.v))
    ELSE [ok |-> FALSE, err |-> "syntax error", values |-> acc]

ParseValues(sql, i, acc) == ParseValuesFrom(sql, acc, Eval(sql, i, <<>>))

\* The new row: the rowid, each named column's value, NULL elsewhere
NewRow(cols, names, values, id) ==
    [k \in 1..Len(cols) |->
        IF k = 1 THEN PyInt(id)
        ELSE IF \A j \in 1..Len(names) : names[j] # cols[k] THEN PyNone
        ELSE values[CHOOSE j \in 1..Len(names) : names[j] = cols[k]]]

InsertValues(tables, t, names, vs) ==
    IF ~vs.ok THEN Failed(vs.err)
    ELSE IF Len(vs.values) # Len(names) THEN Failed("values for columns")
    ELSE [ok |-> TRUE, err |-> "", rows |-> <<>>,
          tables |-> [tables EXCEPT ![t] =
                         Append(@, NewRow(Columns(t), names, vs.values, Len(@) + 1))],
          lastrowid |-> Len(tables[t]) + 1]

InsertNames(tables, sql, t, cols, ns) ==
    IF ~ns.ok THEN Failed("syntax error")
    ELSE IF \E k \in 1..Len(ns.names) : \A j \in 1..Len(cols) : cols[j] # ns.names[k]
    THEN Failed("no such column")
    ELSE InsertValues(tables, t, ns.names, ParseValues(sql, ns.next, <<>>))

\* INSERT INTO t (c1, ...) VALUES (v1, ...): the new row gets the next rowid
ExecInsert(tables, sql) ==
    IF Len(sql) < 3 \/ sql[3] # " (" THEN Failed("syntax error")
    ELSE IF sql[2] \notin DOMAIN tables THEN Failed("no such table")
    ELSE InsertNames(tables, sql, sql[2], Columns(sql[2]), ParseNames(sql, 4, <<>>))

\* cursor.execute(sql) on the tables of the connected file
Execute(tables, sql) ==
    IF sql # <<>> /\ sql[1] = "SELECT " THEN ExecSelect(tables, sql)
    ELSE IF sql # <<>> /\ sql[1] = "INSERT INTO " THEN ExecInsert(tables, sql)
    ELSE Failed("syntax error")

(***************************************************************************)
(* MetaSingleton and SqliteDatabase.                                       *)
(***************************************************************************)
None == ""              \* no connection, no cursor, nothing raised

\* SqliteDatabase.__init__
SqliteDatabase == [connection |-> None, cursor |-> None]

\* MetaSingleton.__call__: [instances, dbs, obj], obj the object returned
MetaSingletonCall(insts, objs, cls) ==
    IF cls \notin DOMAIN insts
    THEN [instances |-> [c \in DOMAIN insts \cup {cls} |->
                            IF c = cls THEN Len(objs) + 1 ELSE insts[c]],
          dbs |-> Append(objs, SqliteDatabase),
          obj |-> Len(objs) + 1]
    ELSE [instances |-> insts, dbs |-> objs, obj |-> insts[cls]]

\* A connect that ignores the call while a connection is open (as the
\* earlier src/main.py does), instead of raising
connect_silent(db, path) ==
    IF db.connection = None
    THEN [raised |-> None, db |-> [connection |-> path, cursor |-> path]]
    ELSE [raised |-> None, db |-> db]

\* SqliteDatabase.connect: [raised, db]; sqlite3.connect(path) opens the
\* file at path and connection.cursor() a cursor on it
connect(db, path) ==
    IF db.connection = None
    THEN [raised |-> None, db |-> [connection |-> path, cursor |-> path]]
    ELSE [raised |-> "connection is already open", db |-> db]

\* SqliteDatabase.close
close(db) ==
    IF db.connection # None THEN [connection |-> None, cursor |-> None] ELSE db

\* What _execute hands back for the outcome r of cursor.execute
Executed(r) == [raised |-> IF r.ok THEN None ELSE "OperationalError", res |-> r]

\* SqliteDatabase._execute: self.cursor.execute(sql); without a cursor the
\* attribute lookup on None raises
_execute(W, db, sql) ==
    IF W.dbs[db].cursor = None
    THEN [raised |-> "AttributeError", res |-> NoRows]
    ELSE Executed(Execute(W.files[W.dbs[db].cursor], sql))

(***************************************************************************)
(* Table instances.  _data is a dict: the (key, value) pairs in insertion  *)
(* order.  A value is a Python value or another Table instance.            *)
(***************************************************************************)
PyObj(inst) == [t |-> "obj", n |-> 0, s |-> <<>>, f |-> NoField, o |-> inst]

Item(k, v) == [k |-> k, v |-> v]

\* _data[key]
Lookup(data, key) == data[CHOOSE i \in 1..Len(data) : data[i].k = key].v

\* Table.__init__(**kwargs): {"id": None}, then every keyword in order
RECURSIVE Update(_, _)
Update(data, kwargs) ==
    IF kwargs = <<>> THEN data
    ELSE LET kv == Head(kwargs)
             at == {i \in 1..Len(data) : data[i].k = kv.k}
         IN  Update(IF at = {} THEN Append(data, kv)
                    ELSE [data EXCEPT ![CHOOSE i \in at : TRUE] = kv],
                    Tail(kwargs))

Table(m, kwargs) == [model |-> m, data |-> Update(<<Item("id", PyNone)>>, kwargs)]

\* Table._get_create_sql: one FOREIGN KEY row per ForeignKey member
RECURSIVE Constraints(_)
Constraints(ms) ==
    IF ms = <<>> THEN <<>>
    ELSE (IF Head(ms).kind = "fk"
          THEN << <<"FOREIGN KEY (" \o Head(ms).name \o ") REFERENCES "
                    \o _get_name(Head(ms).table) \o "(id)">> >>
          ELSE <<>>) \o Constraints(Tail(ms))

\* fields = [" ".join(field) for field in fields], then
\* SQL_TEMPLATE["CREATE"].format(table=..., fields=", ".join(fields))
CreateSql(table, fields) ==
    <<"CREATE TABLE IF NOT EXISTS ", table, " (">>
    \o Join(<<", ">>,
            [r \in 1..Len(fields) |->
                Join(<<" ">>, [k \in 1..Len(fields[r]) |-> <<fields[r][k]>>])])
    \o <<")">>

\* Table._get_create_sql of the class named m with the members ms:
\* [raised, sql]; str.join raises TypeError on an item that is None
_get_create_sql(m, ms) ==
    LET fields == << <<"id", "INTEGER PRIMARY KEY">> >>
                  \o FieldRows(ms) \o Constraints(ms)
    IN  IF \E r \in 1..Len(fields) :
              \E k \in 1..Len(fields[r]) : fields[r][k] = NoneType
        THEN [raised |-> "TypeError", sql |-> <<>>]
        ELSE [raised |-> None, sql |-> CreateSql(_get_name(m), fields)]

\* Table._get_insert_sql: the loop over _data, from the last item back
InsertItem(name, value, rest) ==
    IF value.t = "obj"
    THEN [fields |-> << <<name \o "_id">> >> \o rest.fields,
          values |-> << Str(Lookup(value.o.data, "id")) >> \o rest.values]
    ELSE IF name # "id"
    THEN [fields |-> << <<name>> >> \o rest.fields,
          values |-> << IF value.t = "str" THEN Quote(value.s) ELSE Str(value) >>
                     \o rest.values]
    ELSE rest

RECURSIVE InsertParts(_)
InsertParts(items) ==
    IF items = <<>> THEN [fields |-> <<>>, values |-> <<>>]
    ELSE InsertItem(Head(items).k, Head(items).v, InsertParts(Tail(items)))

\* SQL_TEMPLATE["INSERT"].format(name=..., fields=..., values=...)
_get_insert_sql(inst) ==
    LET parts == InsertParts(inst.data)
    IN  <<"INSERT INTO ", _get_name(inst.model), " (">>
        \o Join(<<", ">>, parts.fields)
        \o <<") VALUES (">>
        \o Join(<<", ">>, parts.values)
        \o <<")">>

\* Table.save after cursor = self.db._execute(sql): [raised, files, id, exec]
Stored(W, path, sql, r) ==
    IF r.raised # None
    THEN [raised |-> r.raised, files |-> W.files, id |-> 0, exec |-> <<sql>>]
    ELSE [raised |-> None, files |-> [W.files EXCEPT ![path] = r.res.tables],
          id |-> r.res.lastrowid, exec |-> <<sql>>]

SaveSql(W, db, sql) == Stored(W, W.dbs[db].cursor, sql, _execute(W, db, sql))

\* Table.save
save(W, inst) == SaveSql(W, W.classes[inst.model].db, _get_insert_sql(inst))

(***************************************************************************)
(* Select, the query cursor.  A call's outcome: what it raised (None when  *)
(* it returned), what it returned, the statements it executed, and its     *)
(* receiver as the call left it.                                           *)
(***************************************************************************)
ResultNone == [none |-> TRUE, items |-> <<>>]
ResultList(items) == [none |-> FALSE, items |-> items]

\* Select.__init__(db, model, sql="", result=None, where="")
Select(db, model, sql, result, where) ==
    [db |-> db, model |-> model, sql |-> sql, where |-> where, result |-> result]

NoSelect == Select(0, "", <<>>, ResultNone, <<>>)
NoTable == [model |-> "", data |-> <<>>]

Raise(self, err, exec) ==
    [raised |-> err, kind |-> "raise", select |-> NoSelect, record |-> NoTable,
     exec |-> exec, self |-> self]
ReturnNone(self, exec) ==
    [raised |-> None, kind |-> "None", select |-> NoSelect, record |-> NoTable,
     exec |-> exec, self |-> self]
ReturnSelect(self, sel, exec) ==
    [raised |-> None, kind |-> "Select", select |-> sel, record |-> NoTable,
     exec |-> exec, self |-> self]
ReturnTable(self, inst, exec) ==
    [raised |-> None, kind |-> "Table", select |-> NoSelect, record |-> inst,
     exec |-> exec, self |-> self]

\* if self.result: a list that is not empty
Truthy(result) == ~result.none /\ result.items # <<>>

\* field.endswith("_id") and field[:-3], over the identifiers in use
EndsWithId(field) == \E k \in 1..Len(Alphabet) : Alphabet[k] \o "_id" = field
StripId(field) == Alphabet[CHOOSE k \in 1..Len(Alphabet) : Alphabet[k] \o "_id" = field]

\* fk.table.id == value, rendered by a fresh SqlVisitor
IdEquals(table, value) ==
    Render(Expression(<<>>, FieldRef(Field(table, "id")), OpEq, ArgLit(value)),
           ObjRef(1)).sql

\* get_fk_table raising err after the statements exec
Stop(err, exec) == [raised |-> err, fields |-> <<>>, values |-> <<>>, exec |-> exec]

\* new_fields_name.append(field); values.append(value), then the later pairs
Pair(field, value, exec, rest) ==
    IF rest.raised # None THEN Stop(rest.raised, exec \o rest.exec)
    ELSE [raised |-> None, fields |-> <<field>> \o rest.fields,
          values |-> <<value>> \o rest.values, exec |-> exec \o rest.exec]

RECURSIVE filter(_, _, _)
RECURSIVE get_fk_table(_, _, _, _, _)
RECURSIVE Rows(_, _, _, _)

\* value = fk.table.objects.filter(fk.table.id == value)[0], given what the
\* filter call came to
Fetched(W, self, fields, row, k, sub) ==
    IF sub.raised # None THEN Stop(sub.raised, sub.exec)
    ELSE IF sub.kind = "None" THEN Stop("TypeError", sub.exec)
    ELSE Pair(StripId(fields[k]), PyObj(sub.select.result.items[1]), sub.exec,
              get_fk_table(W, self, fields, row, k + 1))

\* fk = getattr(self.model, field), then the filter on fk.table.objects
Fetch(W, self, fields, row, k, fk) ==
    IF fk.kind # "fk" THEN Stop("AttributeError", <<>>)
    ELSE Fetched(W, self, fields, row, k,
                 filter(W, W.cursors[W.classes[fk.table].objects],
                        IdEquals(fk.table, row[k])))

\* Select.get_fk_table from the k-th (field, value) pair on:
\* [raised, fields, values, exec]
get_fk_table(W, self, fields, row, k) ==
    IF k > Len(fields) \/ k > Len(row) THEN Stop(None, <<>>)
    ELSE IF ~EndsWithId(fields[k])
    THEN Pair(fields[k], row[k], <<>>, get_fk_table(W, self, fields, row, k + 1))
    ELSE Fetch(W, self, fields, row, k, GetAttr(self.model, StripId(fields[k])))

\* data = dict(zip(new_fields_name, values));
\* result.append(self.model(**data)), then the later rows
Built(model, one, rest) ==
    IF rest.raised # None
    THEN [raised |-> rest.raised, result |-> <<>>, exec |-> one.exec \o rest.exec]
    ELSE [raised |-> None,
          result |-> <<Table(model, [k \in 1..Len(one.fields) |->
                                        Item(one.fields[k], one.values[k])])>>
                     \o rest.result,
          exec |-> one.exec \o rest.exec]

\* One row, given what get_fk_table came to for it
Row(W, self, fields_name, rows, one) ==
    IF one.raised # None
    THEN [raised |-> one.raised, result |-> <<>>, exec |-> one.exec]
    ELSE Built(self.model, one, Rows(W, self, fields_name, Tail(rows)))

\* for row in ...fetchall(): ... result.append(self.model(**data)):
\* [raised, result, exec]
Rows(W, self, fields_name, rows) ==
    IF rows = <<>> THEN [raised |-> None, result |-> <<>>, exec |-> <<>>]
    ELSE Row(W, self, fields_name, rows,
             get_fk_table(W, self, fields_name, Head(rows), 1))

\* An end of Select.all and Select.filter that keeps the statement and the
\* rows on the receiver (self.sql = sql; self.where = where; self.result =
\* result) before it returns
Return_on_self(self, sql, where, built) ==
    IF built.raised # None THEN Raise(self, built.raised, <<sql>> \o built.exec)
    ELSE IF built.result = <<>> THEN ReturnNone(self, <<sql>> \o built.exec)
    ELSE ReturnSelect(Select(self.db, self.model, sql, ResultList(built.result), where),
                      Select(self.db, self.model, sql, ResultList(built.result), where),
                      <<sql>> \o built.exec)

\* The end of Select.all and Select.filter: None for no rows, else a new
\* Select over the rows
Return(self, sql, where, built) ==
    IF built.raised # None THEN Raise(self, built.raised, <<sql>> \o built.exec)
    ELSE IF built.result = <<>> THEN ReturnNone(self, <<sql>> \o built.exec)
    ELSE ReturnSelect(self,
                      Select(self.db, self.model, sql, ResultList(built.result), where),
                      <<sql>> \o built.exec)

\* for row in self.db._execute(sql).fetchall(), given what _execute came to
Fetchall(W, self, sql, where, r) ==
    IF r.raised # None THEN Raise(self, r.raised, <<sql>>)
    ELSE Return(self, sql, where, Rows(W, self, FieldsName(self.model), r.res.rows))

\* self.db._execute(sql), then the loop over its rows
Run(W, self, sql, where) == Fetchall(W, self, sql, where, _execute(W, self.db, sql))

\* A WHERE text that drops self.where: the expression alone
WhereClause_alone(where, expr_sql) == <<" WHERE ">> \o expr_sql

\* The WHERE text Select.filter sends: self.where, extended by the expression
WhereClause(where, expr_sql) ==
    IF where = <<>> THEN <<" WHERE ">> \o expr_sql
    ELSE where \o <<" AND ">> \o expr_sql

\* The statement of Select.filter: SELECT_ALL, the joins, then sql += where
FilterWhere(W, self, where) ==
    Run(W, self,
        SelectAll(_get_name(self.model)) \o Joins(self.model, Members(self.model))
        \o where,
        where)

\* Select.filter, given the text expr_visitor.sql of the rendered expression
filter(W, self, expr_sql) == FilterWhere(W, self, WhereClause(self.where, expr_sql))

\* A Select.all without the early return for a materialized cursor
all_requery(W, self) == Run(W, self, SelectAll(_get_name(self.model)), <<>>)

\* Select.all
all(W, self) ==
    IF Truthy(self.result)
    THEN ReturnSelect(self,
                      Select(self.db, self.model, self.sql, self.result, self.where),
                      <<>>)
    ELSE Run(W, self, SelectAll(_get_name(self.model)), <<>>)

\* Select.get after select = self.filter(expression): select.result is read
\* from whatever filter returned
First(select) ==
    IF select.raised # None THEN select
    ELSE IF select.kind = "None" THEN Raise(select.self, "AttributeError", select.exec)
    ELSE IF ~Truthy(select.select.result) THEN ReturnNone(select.self, select.exec)
    ELSE ReturnTable(select.self, select.select.result.items[1], select.exec)

\* Select.get
get(W, self, expr_sql) == First(filter(W, self, expr_sql))

(***************************************************************************)
(* The program state after the module and the model classes are loaded,    *)
(* and the calls a program makes.                                          *)
(***************************************************************************)
Declared == <<"Parent", "Child", "Toy">>

Paths == {"test.db", "second.db"}

\* Table.__init_subclass__: cls.db = SqliteDatabase();
\* cls.objects = Select(cls.db, cls)
__init_subclass__(S, m) ==
    LET call == MetaSingletonCall(S.instances, S.dbs, "SqliteDatabase")
    IN  [instances |-> call.instances,
         dbs |-> call.dbs,
         handles |-> S.handles \cup {call.obj},
         classes |-> [c \in DOMAIN S.classes \cup {m} |->
                         IF c = m THEN [db |-> call.obj, objects |-> Len(S.cursors) + 1]
                         ELSE S.classes[c]],
         cursors |-> Append(S.cursors, Select(call.obj, m, <<>>, ResultNone, <<>>))]

RECURSIVE Declare(_, _)
Declare(S, ms) ==
    IF ms = <<>> THEN S ELSE Declare(__init_subclass__(S, Head(ms)), Tail(ms))

Loaded ==
    Declare([instances |-> <<>>, dbs |-> <<>>, handles |-> {}, classes |-> <<>>,
             cursors |-> <<>>], Declared)

\* test.db holds one (empty) table per declared model; second.db is new
InitFiles ==
    [p \in Paths |->
        IF p = "test.db"
        THEN [t \in {_get_name(m) : m \in ModelNames} |-> <<>>]
        ELSE <<>>]

NoCall == [op |-> "", self |-> 0, out |-> ReturnNone(NoSelect, <<>>)]

InitProgram ==
    /\ instances = Loaded.instances
    /\ dbs = Loaded.dbs
    /\ handles = Loaded.handles
    /\ classes = Loaded.classes
    /\ cursors = Loaded.cursors
    /\ files = InitFiles
    /\ decl = <<>>
    /\ ret = NoCall

program == <<instances, dbs, handles, files, classes, cursors, decl, ret>>

World == [dbs |-> dbs, files |-> files, classes |-> classes, cursors |-> cursors]

Called(op, self, out) == [op |-> op, self |-> self, out |-> out]

\* The expressions passed to filter and get, each composed for the call:
\*   1: Parent.name == 'p1'
\*   2: Parent.id == 1
Exprs == 1..2

Composed(q) ==
    IF q = 1
    THEN Expression(<<>>, FieldRef(Field("Parent", "name")), OpEq,
                    ArgLit(PyStr(<<"p", "1">>)))
    ELSE Expression(<<>>, FieldRef(Field("Parent", "id")), OpEq, ArgLit(PyInt(1)))

\* db = SqliteDatabase()
Construct ==
    /\ Len(dbs) < MaxDbs
    /\ LET call == MetaSingletonCall(instances, dbs, "SqliteDatabase")
       IN  /\ instances' = call.instances
           /\ dbs' = call.dbs
           /\ handles' = handles \cup {call.obj}
           /\ ret' = Called("SqliteDatabase", call.obj, ReturnNone(NoSelect, <<>>))
    /\ UNCHANGED <<heap, visitor, files, classes, cursors, decl>>

\* db.connect(path)
Connect(h, path) ==
    /\ LET r == connect(dbs[h], path)
       IN  /\ dbs' = [dbs EXCEPT ![h] = r.db]
           /\ ret' = Called("connect", h,
                            IF r.raised = None THEN ReturnNone(NoSelect, <<>>)
                            ELSE Raise(NoSelect, r.raised, <<>>))
    /\ UNCHANGED <<heap, visitor, instances, handles, files, classes, cursors, decl>>

\* db.close()
Close(h) ==
    /\ dbs' = [dbs EXCEPT ![h] = close(dbs[h])]
    /\ ret' = Called("close", h, ReturnNone(NoSelect, <<>>))
    /\ UNCHANGED <<heap, visitor, instances, handles, files, classes, cursors, decl>>

\* Rows in the tables of the models ms
RECURSIVE CountRows(_, _)
CountRows(tables, ms) ==
    IF ms = <<>> THEN 0
    ELSE Len(tables[_get_name(Head(ms))]) + CountRows(tables, Tail(ms))

\* The instances a program saves: Parent(name='p1'), Child(name='c1',
\* parent=<a saved Parent>), Toy(name='t1', owner=<a saved Child>); a saved
\* record is one whose id is a row id of its table
NewRecords ==
    LET Ids(t) == 1..Len(files["test.db"][t])
        Saved(m, id) == Table(m, <<Item("id", PyInt(id))>>)
    IN  {Table("Parent", <<Item("name", PyStr(<<"p", "1">>))>>)}
        \cup {Table("Child", <<Item("name", PyStr(<<"c", "1">>)),
                               Item("parent", PyObj(Saved("Parent", p)))>>) :
                 p \in Ids("parent")}
        \cup {Table("Toy", <<Item("name", PyStr(<<"t", "1">>)),
                             Item("owner", PyObj(Saved("Child", c)))>>) :
                 c \in Ids("child")}

\* self._data["id"] = cursor.lastrowid
SavedAs(inst, r) ==
    /\ files' = r.files
    /\ ret' = Called("save", 0,
                     IF r.raised # None THEN Raise(NoSelect, r.raised, r.exec)
                     ELSE ReturnTable(NoSelect,
                                      [inst EXCEPT !.data =
                                          Update(@, <<Item("id", PyInt(r.id))>>)],
                                      r.exec))

\* record.save()
Save(inst) ==
    /\ CountRows(files["test.db"], Declared) < MaxRows
    /\ SavedAs(inst, save(World, inst))
    /\ UNCHANGED <<heap, visitor, instances, dbs, handles, classes, cursors, decl>>

\* A call on cursors[c] came to out
Returned(op, c, out) ==
    /\ ret' = Called(op, c, out)
    /\ cursors' = [cursors EXCEPT ![c] = out.self]

\* cursors[c].all()
All(c) ==
    /\ Returned("all", c, all(World, cursors[c]))
    /\ UNCHANGED <<heap, visitor, instances, dbs, handles, files, classes, decl>>

\* expr_visitor = SqlVisitor(); expression.visit(expr_visitor)
Visited(st) ==
    /\ heap' = st.heap
    /\ visitor' = [root |-> ObjRef(1), sql |-> st.sql]

\* cursors[c].filter(<expression q>)
Filter(c, q) ==
    /\ Visited(Render(Composed(q), ObjRef(1)))
    /\ Returned("filter", c, filter(World, cursors[c], visitor'.sql))
    /\ UNCHANGED <<instances, dbs, handles, files, classes, decl>>

\* cursors[c].get(<expression q>)
Get(c, q) ==
    /\ Visited(Render(Composed(q), ObjRef(1)))
    /\ Returned("get", c, get(World, cursors[c], visitor'.sql))
    /\ UNCHANGED <<instances, dbs, handles, files, classes, decl>>

\* The caller binds the Select just returned to a name of its own
\* (all_parents = Parent.objects.all())
Keep ==
    /\ ret.out.kind = "Select"
    /\ Len(cursors) < Len(Declared) + MaxCursors
    /\ cursors' = Append(cursors, ret.out.select)
    /\ UNCHANGED <<heap, visitor, instances, dbs, handles, files, classes, ret, decl>>

Init ==
    /\ heap = <<>>
    /\ visitor = [root |-> NoRef, sql |-> <<>>]
    /\ InitProgram

Next ==
    \/ Construct
    \/ \E h \in handles, path \in Paths : Connect(h, path)
    \/ \E h \in handles : Close(h)
    \/ \E inst \in NewRecords : Save(inst)
    \/ \E c \in 1..Len(cursors) : All(c)
    \/ \E c \in 1..Len(cursors), q \in Exprs : Filter(c, q)
    \/ \E c \in 1..Len(cursors), q \in Exprs : Get(c, q)
    \/ Keep

Spec == Init /\ [][Next]_vars

(***************************************************************************)
(* The expression engine on its own: callers compose expressions with the  *)
(* Node operators and render them with fresh SqlVisitors.                  *)
(***************************************************************************)
ExprFields == {Field("Parent", "name"), Field("Parent", "id")}
ExprLiterals == {PyInt(1), PyStr(<<"p", "1">>)}
ItemLists == { << <<"3">>, <<"4">> >>, << <<"7">> >> }

\* self <op> rhs, one of Node.__and__ ... Node.like
Operator(self, op, rhs) ==
    /\ Len(heap) + (IF IsExpression(heap, rhs) THEN 1 ELSE 2) <= MaxNodes
    /\ heap' = Expression(heap, self, op, rhs)
    /\ UNCHANGED <<visitor, program>>

\* self.in_(items)
InCall(self, items) ==
    /\ Len(heap) + 2 <= MaxNodes
    /\ heap' = In_(heap, self, items)
    /\ UNCHANGED <<visitor, program>>

\* v = SqlVisitor(); root.visit(v)
RenderTree(i) ==
    /\ \A j \in StrLeaves(heap, ObjRef(i)) : Quotes(heap[j].val.s) < MaxQuote
    /\ LET st == Render(heap, ObjRef(i))
       IN  /\ heap' = st.heap
           /\ visitor' = [root |-> ObjRef(i), sql |-> st.sql]
    /\ UNCHANGED program

NextExpr ==
    \/ \E f \in ExprFields, op \in BinaryOps \ {OpAnd, OpOr}, v \in ExprLiterals :
          Operator(FieldRef(f), op, ArgLit(v))
    \/ \E i \in ExprIds(heap), op \in {OpAnd, OpOr}, j \in ExprIds(heap) :
          Operator(ObjRef(i), op, ArgRef(ObjRef(j)))
    \/ \E f \in ExprFields, items \in ItemLists : InCall(FieldRef(f), items)
    \/ \E i \in ExprIds(heap) : RenderTree(i)

SpecExpr == Init /\ [][NextExpr]_vars

(***************************************************************************)
(* Model declaration on its own: the program declares class Model(Table)   *)
(* with a body of its choice and asks the declared classes for their       *)
(* CREATE statement.                                                       *)
(***************************************************************************)
MaxFields == 3      \* attributes in the body of class Model

\* The class bodies: up to MaxFields of these declarations, under distinct
\* names, in any order
Bodies ==
    LET Declarations ==
            { TextField("name", FALSE, FALSE, PyNone),
              IntegerField("age", FALSE, TRUE, PyInt(0)),
              RealField("weight", TRUE, FALSE, PyNone),
              ForeignKey("parent", "Parent"),
              ForeignKey("owner", "Child") }
    IN  UNION { { b \in [1..n -> Declarations] :
                    \A i, j \in 1..n : i # j => b[i].name # b[j].name } :
                n \in 0..MaxFields }

\* inspect.getmembers(cls) for a class declared by now
MembersNow(m) ==
    IF m = "Model" THEN sorted(decl \o << IntegerField("id", FALSE, FALSE, PyNone) >>)
    ELSE Members(m)

\* class Model(Table): <body>
Subclass(body) ==
    /\ "Model" \notin DOMAIN classes
    /\ LET S == __init_subclass__([instances |-> instances, dbs |-> dbs,
                                   handles |-> handles, classes |-> classes,
                                   cursors |-> cursors], "Model")
       IN  /\ instances' = S.instances
           /\ dbs' = S.dbs
           /\ handles' = S.handles
           /\ classes' = S.classes
           /\ cursors' = S.cursors
    /\ decl' = body
    /\ UNCHANGED <<heap, visitor, files, ret>>

\* m._get_create_sql()
GetCreateSql(m) ==
    /\ ret' = Called("_get_create_sql", 0,
                     [model |-> m, call |-> _get_create_sql(m, MembersNow(m))])
    /\ UNCHANGED <<heap, visitor, instances, dbs, handles, files, classes, cursors, decl>>

NextSchema ==
    \/ \E body \in Bodies : Subclass(body)
    \/ \E m \in DOMAIN classes : GetCreateSql(m)

SpecSchema == Init /\ [][NextSchema]_vars

(***************************************************************************)
(* Claims about the expression engine (checked under SpecExpr).            *)
(***************************************************************************)
\* The text a reference renders to, by a fresh SqlVisitor, in heap h
Sql(h, r) == Render(h, r).sql

\* C2: rendering a tree with a fresh SqlVisitor leaves every node of the
\* tree unchanged, and rendering the same tree a second time (again with a
\* fresh SqlVisitor) yields the identical SQL text.
C2_RenderPure ==
    [][\A i \in ExprIds(heap) :
          RenderTree(i) =>
              /\ heap' = heap
              /\ Sql(heap', ObjRef(i)) = visitor'.sql]_vars

\* C3: every binary node renders as "(" + render(lhs) + op + render(rhs) +
\* ")", each operand rendered as it renders on its own, for every operator
\* and at every depth.
C3_RenderStructural ==
    \A i \in ExprIds(heap) :
        Sql(heap, ObjRef(i)) =
            <<"(">> \o Sql(heap, heap[i].lhs) \o <<heap[i].op>>
                    \o Sql(heap, heap[i].rhs) \o <<")">>

\* C9: for every field f and list of items, f.in_(items) renders as
\* (<f> IN (v1, v2, ..., vn)): the bare parenthesized comma-joined list.
C9_InRendersBareList ==
    [][\A f \in ExprFields, items \in ItemLists :
          InCall(FieldRef(f), items) =>
              Sql(heap', ObjRef(Len(heap) + 1)) =
                  <<"(">> \o FieldRepr(f) \o <<OpIn>>
                          \o <<"(">> \o Join(<<", ">>, items) \o <<")">>
                          \o <<")">>]_vars

(***************************************************************************)
(* Claims about the database handle and the query cursor (checked under    *)
(* Spec).  ret is the last call; the receiver of a cursor call is          *)
(* cursors[ret.self].                                                      *)
(***************************************************************************)
Receiver == cursors[ret.self]

\* The tables of the file the receiver's database is connected to
Tables == files[dbs[Receiver.db].cursor]

\* The id of a record
IdOf(inst) == Lookup(inst.data, "id").n

\* get's outcome against the rows r that its filter statement selects
GetAgrees(r) ==
    IF r.rows = <<>> THEN ret.out.kind = "None" /\ ret.out.raised = None
    ELSE ret.out.kind = "Table" /\ IdOf(ret.out.record) = r.rows[1][1].n

\* C1: get(expression) returns the first row of filter(expression) when at
\* least one row matches, and returns None without raising when zero rows
\* match.
C1_GetFirstOrNone ==
    (/\ ret.op = "get"
     /\ dbs[Receiver.db].cursor # None
     /\ Execute(Tables, ret.out.exec[1]).ok)
        => GetAgrees(Execute(Tables, ret.out.exec[1]))

\* The Select that Model.objects is bound to when the class is declared
Unfiltered(m) == Select(classes[m].db, m, <<>>, ResultNone, <<>>)

C5_AllIdempotent ==
    (ret.op = "all" /\ Truthy(Receiver.result))
        => /\ ret.out.kind = "Select"
           /\ ret.out.select.sql = Receiver.sql
           /\ ret.out.select.where = Receiver.where
           /\ ret.out.select.result = Receiver.result
           /\ ret.out.exec = <<>>

\* all() on a materialized cursor returned, with more rows in the table by
\* then than the cursor holds
C5_Witness ==
    /\ ret.op = "all"
    /\ Truthy(Receiver.result)
    /\ ret.out.kind = "Select"
    /\ dbs[Receiver.db].cursor = "test.db"
    /\ Receiver.where = <<>>
    /\ Len(Receiver.result.items) < Len(Tables[_get_name(Receiver.model)])

\* The text of a statement from its WHERE keyword on
RECURSIVE FromWhere(_)
FromWhere(sql) ==
    IF sql = <<>> \/ Head(sql) = " WHERE " THEN sql ELSE FromWhere(Tail(sql))

\* The joined row, under the joins of statement sql, of the stored row that
\* the record inst was built from
StoredRow(sql, inst) ==
    Joined(Tables, sql[4], ParseJoins(Tables, sql, 5, <<>>).joins,
           Tables[sql[4]][IdOf(inst)])

\* The WHERE clause or the expression text holds on the joined row env
Holds(text, env) ==
    IF text = <<>> THEN TRUE
    ELSE IF Head(text) = " WHERE " THEN Truth(Where(text, 1, env).v)
    ELSE Truth(Eval(text, 1, env).v)

\* C6: filter on a cursor sends a statement whose WHERE clause is the
\* cursor's WHERE text, then " AND ", then the rendering of the expression
\* (" WHERE " and the rendering alone on a cursor without a WHERE clause),
\* the returned cursor carries that clause, and every returned row satisfies
\* the cursor's clause and the expression.
C6_WhereComposes ==
    ret.op = "filter"
        => /\ FromWhere(ret.out.exec[1]) =
                  (IF Receiver.where = <<>> THEN <<" WHERE ">>
                   ELSE Receiver.where \o <<" AND ">>) \o visitor.sql
           /\ ret.out.kind = "Select"
                  => /\ ret.out.select.where = FromWhere(ret.out.exec[1])
                     /\ \A k \in 1..Len(ret.out.select.result.items) :
                           /\ Holds(Receiver.where,
                                    StoredRow(ret.out.exec[1],
                                              ret.out.select.result.items[k]))
                           /\ Holds(visitor.sql,
                                    StoredRow(ret.out.exec[1],
                                              ret.out.select.result.items[k]))

\* A filter on a filtered cursor returned fewer rows than the cursor holds
C6_Witness ==
    /\ ret.op = "filter"
    /\ Receiver.where # <<>>
    /\ ret.out.kind = "Select"
    /\ Len(ret.out.select.result.items) < Len(Receiver.result.items)

\* One LEFT JOIN per ForeignKey member, on the table the ForeignKey references
RECURSIVE JoinsOnReferenced(_, _)
JoinsOnReferenced(m, ms) ==
    IF ms = <<>> THEN <<>>
    ELSE (IF Head(ms).kind = "fk"
          THEN <<" LEFT JOIN ", _get_name(Head(ms).table), " ON ", _get_name(m), ".",
                 Head(ms).name \o "_id", " = ", _get_name(Head(ms).table), ".", "id">>
          ELSE <<>>) \o JoinsOnReferenced(m, Tail(ms))

\* C7: the statement of filter() for a model M is SELECT M.* FROM M, one
\* LEFT JOIN <T> ON M.<fk>_id = <T>.id per ForeignKey attribute fk of M with
\* T the table of the model it references, then the WHERE clause.
C7_JoinsReferencedTable ==
    ret.op = "filter"
        => ret.out.exec[1] =
              SelectAll(_get_name(Receiver.model))
              \o JoinsOnReferenced(Receiver.model, Members(Receiver.model))
              \o WhereClause(Receiver.where, visitor.sql)

\* The tables of the models that m references by a ForeignKey
Referenced(m) ==
    {_get_name(Members(m)[k].table) :
        k \in {j \in 1..Len(Members(m)) : Members(m)[j].kind = "fk"}}

\* C8: all() and filter() on model M send statements to M's table and to
\* the tables of the models M references, and none to resolve the foreign
\* keys of a referenced record (for A -> B -> C, none to C's table).
C8_NoTransitiveLoading ==
    ret.op \in {"all", "filter"}
        => \A k \in 1..Len(ret.out.exec) :
              ret.out.exec[k][2] \in {_get_name(Receiver.model)}
                                       \cup Referenced(Receiver.model)

\* C10's case for one connect call on handle h
ConnectBinds(h, path) ==
    IF dbs[h].connection = None
    THEN ret'.out.raised = None /\ dbs'[h].connection = path
    ELSE ret'.out.raised = "connection is already open" /\ dbs' = dbs

\* C10: every SqliteDatabase() yields the one shared instance, a connect
\* with no connection open binds the connection, and a connect while a
\* connection is open raises 'connection is already open' and leaves the
\* connection and the cursor unchanged.
C10_SingletonConnect ==
    [][/\ Cardinality(handles') = 1
       /\ Len(dbs') = 1
       /\ \A h \in handles, path \in Paths :
             Connect(h, path) => ConnectBinds(h, path)]_vars

\* A connect was refused while the connection made earlier is still open
C10_Witness ==
    /\ ret.op = "connect"
    /\ ret.out.raised = "connection is already open"
    /\ dbs[ret.self].connection = "test.db"
    /\ dbs[ret.self].cursor = "test.db"
    /\ Cardinality(handles) = 1

(***************************************************************************)
(* Claims about the CREATE statement (checked under SpecSchema).  ret is   *)
(* the last _get_create_sql call: the class asked and what the call came   *)
(* to.                                                                     *)
(***************************************************************************)
\* The body of the class named m, in declaration order
BodyOf(m) == IF m = "Model" THEN decl ELSE ClassBody(m)

\* The column definitions C11 names, for the members ms: <name> <SQL type of
\* the field class> and the flags, <name>_id INTEGER for a ForeignKey
RECURSIVE TypedColumns(_)
TypedColumns(ms) ==
    IF ms = <<>> THEN <<>>
    ELSE (IF Head(ms).kind = "field" /\ Head(ms).name # "id"
          THEN << <<Head(ms).name, Head(ms).type>>
                  \o (IF Head(ms).unique THEN <<"UNIQUE">> ELSE <<>>)
                  \o (IF ~Head(ms).null THEN <<"NOT NULL">> ELSE <<>>)
                  \o (IF Head(ms).default # PyNone
                      THEN <<"DEFAULT " \o Str(Head(ms).default)[1]>> ELSE <<>>) >>
          ELSE IF Head(ms).kind = "fk"
          THEN << <<Head(ms).name \o "_id", "INTEGER">> >>
          ELSE <<>>) \o TypedColumns(Tail(ms))

\* The constraints C11 names: FOREIGN KEY (<name>_id) REFERENCES <table>(id)
RECURSIVE ColumnConstraints(_)
ColumnConstraints(ms) ==
    IF ms = <<>> THEN <<>>
    ELSE (IF Head(ms).kind = "fk"
          THEN << <<"FOREIGN KEY (" \o Head(ms).name \o "_id" \o ") REFERENCES "
                    \o _get_name(Head(ms).table) \o "(id)">> >>
          ELSE <<>>) \o ColumnConstraints(Tail(ms))

\* C11: for every declared model _get_create_sql() is CREATE TABLE IF NOT
\* EXISTS <table> (id INTEGER PRIMARY KEY, ...) with each declared field as
\* <name> <SQL type of its field class> and its UNIQUE / NOT NULL / DEFAULT
\* flags, each ForeignKey attribute as <name>_id INTEGER, and one trailing
\* FOREIGN KEY (<name>_id) REFERENCES <other_table>(id) per ForeignKey.
C11_CreateSqlTyped ==
    ret.op = "_get_create_sql"
        => /\ ret.out.call.raised = None
           /\ ret.out.call.sql =
                 CreateSql(_get_name(ret.out.model),
                           << <<"id", "INTEGER PRIMARY KEY">> >>
                           \o TypedColumns(MembersNow(ret.out.model))
                           \o ColumnConstraints(MembersNow(ret.out.model)))

====
